---- MODULE Spec2Model ----
(***************************************************************************)
(* amana-chat: the token route (app/api/ably-token/route.ts, GET) and the  *)
(* chat component (App) with its script-loading effect, its connection     *)
(* effect, the subscribe handler and handleSendMessage.                    *)
(*                                                                         *)
(* Strings are sequences of tokens, so that "contains", concatenation,     *)
(* trim and JSON.stringify are computed and not assumed.                   *)
(***************************************************************************)
EXTENDS Integers, Sequences, FiniteSets, TLC

VARIABLES
    env,            \* process.env.ABLY_API_KEY: [set, value]
    req,            \* one record per GET invocation (its locals and its result)
    upstreamCalls,  \* per request: calls of client.auth.createTokenRequest
    serverLog,      \* what console.error received on the server
    \* the component App
    mounted,             \* the component is mounted
    scriptEffectPending, \* the script-loading effect has yet to run
    effectPending,       \* the connection effect has yet to run (again)
    script,              \* the CDN script element: none, loading, loaded, error
    ablyScriptLoaded,    \* useState ablyScriptLoaded
    ably,                \* useState ably: "null" or "client"
    channel,             \* useState channel: "null" or "channel"
    messages,            \* useState messages
    messageText,         \* useState messageText
    username,            \* useState username
    consoleErrors,       \* what console.error received in the browser
    cleanupRegistered,   \* the connection effect returned its cleanup
    \* the realtime transport (window.Ably.Realtime) and the broker
    openCalls,      \* the options of each new window.Ably.Realtime(...)
    conn,           \* the client's connection state
    subscribed,     \* chatChannel.subscribe registered the handler
    published,      \* the payload of each channel.publish(...)
    outbox,         \* published payloads the broker has not yet taken or refused
    closeCalls,     \* calls of ablyClient.close()
    inflight,       \* broker events not yet delivered to this subscriber
    delivered,      \* broker events handed to the subscribe handler, in order
    brokerSeq,      \* events the broker has accepted
    failures,       \* the failures that have happened
    sendCalls,      \* invocations of handleSendMessage
    sentIn          \* the connection state handleSendMessage last ran in

issuerVars == <<env, req, upstreamCalls, serverLog>>

sessionVars ==
    <<mounted, scriptEffectPending, effectPending, script, ablyScriptLoaded,
      ably, channel, messages, messageText, username, consoleErrors,
      cleanupRegistered, openCalls, conn, subscribed, published, outbox,
      closeCalls, inflight, delivered, brokerSeq, failures, sendCalls, sentIn>>

vars == <<issuerVars, sessionVars>>

----------------------------------------------------------------------------
(* Bounds *)

NumRequests == 2
MaxSends == 1
MaxEvents == 2

Requests == 1..NumRequests

----------------------------------------------------------------------------
(* Strings *)

Quote == "\""

\* s occurs in t as a contiguous run of tokens (String.prototype.includes)
Contains(t, s) ==
    \E i \in 1..(Len(t) + 1) :
        /\ i + Len(s) - 1 <= Len(t)
        /\ SubSeq(t, i, i + Len(s) - 1) = s

StrVal(s) == [t |-> "str", v |-> s]

\* JSON.stringify of one value
StringifyValue(val) ==
    IF val.t = "str" THEN <<Quote>> \o val.v \o <<Quote>> ELSE val.v

RECURSIVE StringifyMembers(_)
StringifyMembers(obj) ==
    IF obj = <<>> THEN <<>>
    ELSE <<Quote, obj[1][1], Quote, ":">> \o StringifyValue(obj[1][2])
         \o (IF Len(obj) > 1 THEN <<",">> ELSE <<>>)
         \o StringifyMembers(Tail(obj))

\* JSON.stringify of an object given as its members <<key, value>> in
\* insertion order
JSONstringify(obj) == <<"{">> \o StringifyMembers(obj) \o <<"}">>

----------------------------------------------------------------------------
(* The environment of the route *)

\* The long-lived key "keyName:keySecret"
KeyName == <<"app", ".", "kid">>
Secret == KeyName \o <<":", "s3cr3t">>

EnvUnset == [set |-> FALSE, value |-> <<>>]
EnvEmpty == [set |-> TRUE, value |-> <<>>]
EnvSecret == [set |-> TRUE, value |-> Secret]
\* a key that is not of the form name:secret
Malformed == KeyName \o <<":", "s3", ":", "cr3t">>
EnvMalformed == [set |-> TRUE, value |-> Malformed]
EnvValues == {EnvUnset, EnvEmpty, EnvSecret, EnvMalformed}

\* !process.env.ABLY_API_KEY: undefined and "" are both falsy
Falsy(e) == ~e.set \/ e.value = <<>>

\* Math.floor(Math.random() * 10000)
RandomRange == 10000
RandomDraws == {0, RandomRange - 1}

\* "amana-chat-user-" + n
ClientId(n) == <<"amana-chat-user-">> \o <<ToString(n)>>

\* What the rejected promise of createTokenRequest can carry: the
\* library's error may quote the key it was given.
ErrorDetails == {<<"timeout">>, <<"invalid", "key", " ">> \o Secret}

\* The part of a key before its ":" (the public key name)
RECURSIVE KeyNameOf(_)
KeyNameOf(key) ==
    IF key = <<>> \/ Head(key) = ":" THEN <<>>
    ELSE <<Head(key)>> \o KeyNameOf(Tail(key))

\* route.ts 14-16: the token params the handler passes, a clientId alone
TokenParams(clientId) == << <<"clientId", StrVal(clientId)>> >>

RECURSIVE Colons(_)
Colons(key) ==
    IF key = <<>> THEN 0
    ELSE (IF Head(key) = ":" THEN 1 ELSE 0) + Colons(Tail(key))

\* route.ts 12: new Ably.Rest(key) throws, before anything is awaited, for
\* a key with a ":" that is not one name and one secret
RestThrows(key) == Colons(key) > 1

\* what the constructor throws
InvalidKeyError == <<"invalid key parameter">>

\* The signed token request the signer resolves with for (key, clientId):
\* the key's name (never its secret part), the params it was given, the
\* time of signing, a nonce and a mac. It carries a ttl only if the params
\* do; the broker sets the expiry when it exchanges the request for a token.
SignedTokenRequest(key, clientId) ==
    << <<"keyName", StrVal(KeyNameOf(key))>> >>
    \o TokenParams(clientId) \o
    << <<"timestamp", [t |-> "num", v |-> <<"1700000000000">>]>>,
       <<"nonce", StrVal(<<"n0nce">>)>>,
       <<"mac", StrVal(<<"hmac">>)>> >>

UpstreamOutcomes ==
    [kind : {"resolve"}, err : {<<>>}] \cup [kind : {"reject"}, err : ErrorDetails]

----------------------------------------------------------------------------
(* GET *)

NoResponse == [status |-> 0, body |-> <<>>, contentType |-> <<>>]

\* The Content-Type the Response constructor gives a string body when the
\* init names no headers
TextPlain == <<"text/plain;charset=UTF-8">>

\* new Response(body, {status, headers}); contentType <<>> stands for an
\* init without headers
Response(body, status, contentType) ==
    [status |-> status, body |-> body,
     contentType |-> IF contentType = <<>> THEN TextPlain ELSE contentType]

IdleRequest ==
    [pc |-> "idle", key |-> EnvUnset, clientId |-> <<>>,
     response |-> NoResponse, threw |-> FALSE, outcome |-> "none"]

\* the catch block, returning the caught error's own text
CatchBlock_Leaky(r, key, err) ==
    /\ serverLog' = serverLog \cup {err}
    /\ req' = [req EXCEPT ![r] =
           [@ EXCEPT !.pc = "done", !.key = key, !.outcome = "reject",
                     !.response =
                        Response(JSONstringify(<< <<"error", StrVal(err)>> >>),
                                 500, <<>>)]]

\* route.ts 22-27, for a request that read key: the catch of whatever the
\* try block threw, the constructor at line 12 or the awaited call
CatchBlock(r, key, err) ==
    /\ serverLog' = serverLog \cup {err}
    /\ req' = [req EXCEPT ![r] =
           [@ EXCEPT !.pc = "done", !.key = key, !.outcome = "reject",
                     !.response =
                        Response(JSONstringify(
                            << <<"error", StrVal(<<"Failed to create token">>)>> >>),
                            500, <<>>)]]

\* route.ts 5-16 without the check of the key
GET_Start_NoCheck(r) ==
    /\ UNCHANGED sessionVars
    /\ req[r].pc = "idle"
    /\ IF RestThrows(env.value)
       THEN /\ CatchBlock(r, env, InvalidKeyError)
            /\ UNCHANGED upstreamCalls
       ELSE /\ \E n \in RandomDraws :
                req' = [req EXCEPT ![r] =
                   [@ EXCEPT !.pc = "awaiting", !.key = env,
                             !.clientId = ClientId(n)]]
            /\ upstreamCalls' = [upstreamCalls EXCEPT ![r] = @ + 1]
            /\ UNCHANGED serverLog
    /\ UNCHANGED env

\* the key check remembered from the first request that ran it
GET_Start_MemoCheck(r) ==
    /\ UNCHANGED sessionVars
    /\ req[r].pc = "idle"
    /\ LET started == {q \in Requests : req[q].pc # "idle"}
           missing == IF started = {}
                      THEN Falsy(env)
                      ELSE \A q \in started : Falsy(req[q].key)
       IN IF missing
          THEN /\ req' = [req EXCEPT ![r] =
                      [@ EXCEPT !.pc = "done", !.key = env,
                                !.response =
                                   Response(JSONstringify(
                                       << <<"error", StrVal(<<"ABLY_API_KEY not set">>)>> >>),
                                       500, <<>>)]]
               /\ UNCHANGED <<upstreamCalls, serverLog>>
          ELSE IF RestThrows(env.value)
          THEN /\ CatchBlock(r, env, InvalidKeyError)
               /\ UNCHANGED upstreamCalls
          ELSE /\ \E n \in RandomDraws :
                   req' = [req EXCEPT ![r] =
                      [@ EXCEPT !.pc = "awaiting", !.key = env,
                                !.clientId = ClientId(n)]]
               /\ upstreamCalls' = [upstreamCalls EXCEPT ![r] = @ + 1]
               /\ UNCHANGED serverLog
    /\ UNCHANGED env

\* route.ts 5-16: the check of the key, the construction of the client,
\* and up to the await
GET_Start(r) ==
    /\ UNCHANGED sessionVars
    /\ req[r].pc = "idle"
    /\ IF Falsy(env)
       THEN /\ req' = [req EXCEPT ![r] =
                   [@ EXCEPT !.pc = "done", !.key = env,
                             !.response =
                                Response(JSONstringify(
                                    << <<"error", StrVal(<<"ABLY_API_KEY not set">>)>> >>),
                                    500, <<>>)]]
            /\ UNCHANGED <<upstreamCalls, serverLog>>
       ELSE IF RestThrows(env.value)
       THEN /\ CatchBlock(r, env, InvalidKeyError)
            /\ UNCHANGED upstreamCalls
       ELSE /\ \E n \in RandomDraws :
                req' = [req EXCEPT ![r] =
                   [@ EXCEPT !.pc = "awaiting", !.key = env,
                             !.clientId = ClientId(n)]]
            /\ upstreamCalls' = [upstreamCalls EXCEPT ![r] = @ + 1]
            /\ UNCHANGED serverLog
    /\ UNCHANGED env

\* the continuation with the try/catch left out: the rejection escapes
GET_Resume_NoCatch(r, outcome) ==
    /\ UNCHANGED sessionVars
    /\ req[r].pc = "awaiting"
    /\ IF outcome.kind = "resolve"
       THEN /\ req' = [req EXCEPT ![r] =
                   [@ EXCEPT !.pc = "done", !.outcome = "resolve",
                             !.response =
                                Response(JSONstringify(
                                    SignedTokenRequest(req[r].key.value, req[r].clientId)),
                                    200, <<"application/json">>)]]
       ELSE /\ req' = [req EXCEPT ![r] = [@ EXCEPT !.pc = "done", !.outcome = "reject",
                                                 !.threw = TRUE]]
    /\ UNCHANGED <<env, upstreamCalls, serverLog>>

\* route.ts 14-27: the continuation of the await
GET_Resume(r, outcome) ==
    /\ UNCHANGED sessionVars
    /\ req[r].pc = "awaiting"
    /\ IF outcome.kind = "resolve"
       THEN /\ req' = [req EXCEPT ![r] =
                   [@ EXCEPT !.pc = "done", !.outcome = "resolve",
                             !.response =
                                Response(JSONstringify(
                                    SignedTokenRequest(req[r].key.value, req[r].clientId)),
                                    200, <<"application/json">>)]]
            /\ UNCHANGED serverLog
       ELSE CatchBlock(r, req[r].key, outcome.err)
    /\ UNCHANGED <<env, upstreamCalls>>

\* The deployment sets, empties or removes the key between requests
SetEnv(e) ==
    /\ UNCHANGED sessionVars
    /\ env # e
    /\ env' = e
    /\ UNCHANGED <<req, upstreamCalls, serverLog>>

----------------------------------------------------------------------------
(* The component App *)

\* What the user can type: nothing, blanks only, a word between blanks
Texts == {<<>>, <<" ">>, <<" ", "a", " ">>}

RECURSIVE TrimStart(_)
TrimStart(s) ==
    IF s # <<>> /\ Head(s) = " " THEN TrimStart(Tail(s)) ELSE s

RECURSIVE TrimEnd(_)
TrimEnd(s) ==
    IF s # <<>> /\ s[Len(s)] = " " THEN TrimEnd(SubSeq(s, 1, Len(s) - 1)) ELSE s

\* String.prototype.trim
Trim(s) == TrimEnd(TrimStart(s))

\* 'user-' + Math.floor(Math.random() * 10000)
Username(n) == <<"user-">> \o <<ToString(n)>>

ScriptErrorText == "Failed to load Ably script from CDN."

RealtimeOptions == [authUrl |-> "/api/ably-token"]

\* The session's connection state. The component keeps none of its own: it
\* has no client before the connection effect ran, and afterwards the
\* state is the one of the client it created.
StateName ==
    [none |-> "Idle", connecting |-> "Connecting", connected |-> "Connected",
     suspended |-> "Suspended", failed |-> "Failed", closed |-> "Closed"]

ConnectionState ==
    IF ~mounted THEN "Closed"
    ELSE IF ably = "null" THEN "Idle"
    ELSE StateName[conn]

\* disabled={!ably} on the input
InputDisabled == ably = "null"

\* disabled={!ably || messageText.trim() === ''} on the button
SendDisabled == ably = "null" \/ Trim(messageText) = <<>>

\* msg.name === username: the message is shown as 'You'
IsOwn(msg) == msg.name = username

\* The clients created and not closed: the cleanup closes the one client
\* its effect created
UnclosedClients == Len(openCalls) - (IF closeCalls > 0 THEN 1 ELSE 0)

NoEffectPending == ~scriptEffectPending /\ ~effectPending

\* part_000 50-64: the script-loading effect, run once after mount
ScriptEffect ==
    /\ UNCHANGED issuerVars
    /\ mounted /\ scriptEffectPending
    /\ scriptEffectPending' = FALSE
    /\ script' = "loading"
    /\ UNCHANGED <<mounted, effectPending, ablyScriptLoaded, ably, channel,
                   messages, messageText, username, consoleErrors,
                   cleanupRegistered, openCalls, conn, subscribed, published,
                   outbox, closeCalls, inflight, delivered, brokerSeq,
                   failures, sendCalls, sentIn>>

\* part_000 55-58: script.onload. A state update of an unmounted component
\* is dropped.
ScriptOnload ==
    /\ UNCHANGED issuerVars
    /\ script = "loading"
    /\ script' = "loaded"
    /\ IF mounted
       THEN ablyScriptLoaded' = TRUE /\ effectPending' = TRUE
       ELSE UNCHANGED <<ablyScriptLoaded, effectPending>>
    /\ UNCHANGED <<mounted, scriptEffectPending, ably, channel, messages,
                   messageText, username, consoleErrors, cleanupRegistered,
                   openCalls, conn, subscribed, published, outbox, closeCalls,
                   inflight, delivered, brokerSeq, failures, sendCalls, sentIn>>

\* part_000 59-61: script.onerror
ScriptOnerror ==
    /\ UNCHANGED issuerVars
    /\ script = "loading"
    /\ script' = "error"
    /\ consoleErrors' = consoleErrors \cup {ScriptErrorText}
    /\ failures' = failures \cup {"script"}
    /\ UNCHANGED <<mounted, scriptEffectPending, effectPending,
                   ablyScriptLoaded, ably, channel, messages, messageText,
                   username, cleanupRegistered, openCalls, conn, subscribed,
                   published, outbox, closeCalls, inflight, delivered,
                   brokerSeq, sendCalls, sentIn>>

\* the connection effect without chatChannel.subscribe
ConnectionEffect_NoSubscribe ==
    /\ UNCHANGED issuerVars
    /\ mounted /\ ~scriptEffectPending /\ effectPending
    /\ effectPending' = FALSE
    /\ IF ~ablyScriptLoaded
       THEN UNCHANGED <<ably, channel, cleanupRegistered, openCalls, conn,
                        subscribed>>
       ELSE /\ openCalls' = Append(openCalls, RealtimeOptions)
            /\ conn' = "connecting"
            /\ subscribed' = FALSE
            /\ ably' = "client"
            /\ channel' = "channel"
            /\ cleanupRegistered' = TRUE
    /\ UNCHANGED <<mounted, scriptEffectPending, script, ablyScriptLoaded,
                   messages, messageText, username, consoleErrors, published,
                   outbox, closeCalls, inflight, delivered, brokerSeq,
                   failures, sendCalls, sentIn>>

\* the connection effect without its test of ablyScriptLoaded
ConnectionEffect_NoGuard ==
    /\ UNCHANGED issuerVars
    /\ mounted /\ ~scriptEffectPending /\ effectPending
    /\ effectPending' = FALSE
    /\ IF FALSE
       THEN UNCHANGED <<ably, channel, cleanupRegistered, openCalls, conn,
                        subscribed>>
       ELSE /\ openCalls' = Append(openCalls, RealtimeOptions)
            /\ conn' = "connecting"
            /\ subscribed' = TRUE
            /\ ably' = "client"
            /\ channel' = "channel"
            /\ cleanupRegistered' = TRUE
    /\ UNCHANGED <<mounted, scriptEffectPending, script, ablyScriptLoaded,
                   messages, messageText, username, consoleErrors, published,
                   outbox, closeCalls, inflight, delivered, brokerSeq,
                   failures, sendCalls, sentIn>>

\* part_000 72-103: the connection effect, run after mount and after
\* ablyScriptLoaded changed
ConnectionEffect ==
    /\ UNCHANGED issuerVars
    /\ mounted /\ ~scriptEffectPending /\ effectPending
    /\ effectPending' = FALSE
    /\ IF ~ablyScriptLoaded
       THEN UNCHANGED <<ably, channel, cleanupRegistered, openCalls, conn,
                        subscribed>>
       ELSE /\ openCalls' = Append(openCalls, RealtimeOptions)
            /\ conn' = "connecting"
            /\ subscribed' = TRUE
            /\ ably' = "client"
            /\ channel' = "channel"
            /\ cleanupRegistered' = TRUE
    /\ UNCHANGED <<mounted, scriptEffectPending, script, ablyScriptLoaded,
                   messages, messageText, username, consoleErrors, published,
                   outbox, closeCalls, inflight, delivered, brokerSeq,
                   failures, sendCalls, sentIn>>

\* part_000 176: onChange of the input
setMessageText(text) ==
    /\ UNCHANGED issuerVars
    /\ mounted /\ NoEffectPending
    /\ messageText # text
    /\ messageText' = text
    /\ UNCHANGED <<mounted, scriptEffectPending, effectPending, script,
                   ablyScriptLoaded, ably, channel, messages, username,
                   consoleErrors, cleanupRegistered, openCalls, conn,
                   subscribed, published, outbox, closeCalls, inflight,
                   delivered, brokerSeq, failures, sendCalls, sentIn>>

\* handleSendMessage that also appends what it sends to the list
handleSendMessage_LocalEcho ==
    /\ UNCHANGED issuerVars
    /\ mounted /\ NoEffectPending
    /\ sendCalls < MaxSends
    /\ sendCalls' = sendCalls + 1
    /\ sentIn' = ConnectionState
    /\ IF Trim(messageText) = <<>>
       THEN UNCHANGED <<published, outbox, messageText, messages>>
       ELSE IF channel # "null"
       THEN /\ published' = Append(published,
                                   [name |-> username, data |-> messageText])
            /\ outbox' = Append(outbox,
                                [name |-> username, data |-> messageText])
            /\ messages' = Append(messages,
                                  [id |-> 0, name |-> username,
                                   data |-> messageText, timestamp |-> 0,
                                   connectionId |-> "self"])
            /\ messageText' = <<>>
       ELSE UNCHANGED <<published, outbox, messageText, messages>>
    /\ UNCHANGED <<mounted, scriptEffectPending, effectPending, script,
                   ablyScriptLoaded, ably, channel, username,
                   consoleErrors, cleanupRegistered, openCalls, conn,
                   subscribed, closeCalls, inflight, delivered, brokerSeq,
                   failures>>

\* handleSendMessage that tests the text without trimming it
handleSendMessage_NoTrim ==
    /\ UNCHANGED issuerVars
    /\ mounted /\ NoEffectPending
    /\ sendCalls < MaxSends
    /\ sendCalls' = sendCalls + 1
    /\ sentIn' = ConnectionState
    /\ IF messageText = <<>>
       THEN UNCHANGED <<published, outbox, messageText>>
       ELSE IF channel # "null"
       THEN /\ published' = Append(published,
                                   [name |-> username, data |-> messageText])
            /\ outbox' = Append(outbox,
                                [name |-> username, data |-> messageText])
            /\ messageText' = <<>>
       ELSE UNCHANGED <<published, outbox, messageText>>
    /\ UNCHANGED <<mounted, scriptEffectPending, effectPending, script,
                   ablyScriptLoaded, ably, channel, messages, username,
                   consoleErrors, cleanupRegistered, openCalls, conn,
                   subscribed, closeCalls, inflight, delivered, brokerSeq,
                   failures>>

\* handleSendMessage that sends the trimmed text
handleSendMessage_Trimmed ==
    /\ UNCHANGED issuerVars
    /\ mounted /\ NoEffectPending
    /\ sendCalls < MaxSends
    /\ sendCalls' = sendCalls + 1
    /\ sentIn' = ConnectionState
    /\ IF Trim(messageText) = <<>>
       THEN UNCHANGED <<published, outbox, messageText>>
       ELSE IF channel # "null"
       THEN /\ published' = Append(published,
                                   [name |-> username, data |-> Trim(messageText)])
            /\ outbox' = Append(outbox,
                                [name |-> username, data |-> Trim(messageText)])
            /\ messageText' = <<>>
       ELSE UNCHANGED <<published, outbox, messageText>>
    /\ UNCHANGED <<mounted, scriptEffectPending, effectPending, script,
                   ablyScriptLoaded, ably, channel, messages, username,
                   consoleErrors, cleanupRegistered, openCalls, conn,
                   subscribed, closeCalls, inflight, delivered, brokerSeq,
                   failures>>

\* part_000 111-123
handleSendMessage ==
    /\ UNCHANGED issuerVars
    /\ mounted /\ NoEffectPending
    /\ sendCalls < MaxSends
    /\ sendCalls' = sendCalls + 1
    /\ sentIn' = ConnectionState
    /\ IF Trim(messageText) = <<>>
       THEN UNCHANGED <<published, outbox, messageText>>
       ELSE IF channel # "null"
       THEN /\ published' = Append(published,
                                   [name |-> username, data |-> messageText])
            /\ outbox' = Append(outbox,
                                [name |-> username, data |-> messageText])
            /\ messageText' = <<>>
       ELSE UNCHANGED <<published, outbox, messageText>>
    /\ UNCHANGED <<mounted, scriptEffectPending, effectPending, script,
                   ablyScriptLoaded, ably, channel, messages, username,
                   consoleErrors, cleanupRegistered, openCalls, conn,
                   subscribed, closeCalls, inflight, delivered, brokerSeq,
                   failures>>

\* the handler putting the new message first
SubscribeHandler_Prepend(prevMessages, msg) == <<msg>> \o prevMessages

\* the handler leaving out a message whose id the list already holds
SubscribeHandler_Dedup(prevMessages, msg) ==
    IF \E i \in 1..Len(prevMessages) : prevMessages[i].id = msg.id
    THEN prevMessages
    ELSE Append(prevMessages, msg)

\* part_000 87-90: setMessages((prevMessages) => [...prevMessages, msg])
SubscribeHandler(prevMessages, msg) == Append(prevMessages, msg)

\* part_000 99-102: the unmount of the component. React runs the cleanup
\* the connection effect returned, ablyClient.close(), once; an effect that
\* returned at line 75 left no cleanup to run.
stop ==
    /\ UNCHANGED issuerVars
    /\ mounted
    /\ NoEffectPending
    /\ mounted' = FALSE
    /\ IF cleanupRegistered
       THEN closeCalls' = closeCalls + 1 /\ conn' = "closed"
       ELSE UNCHANGED <<closeCalls, conn>>
    /\ UNCHANGED <<scriptEffectPending, effectPending, script,
                   ablyScriptLoaded, ably, channel, messages, messageText,
                   username, consoleErrors, cleanupRegistered, openCalls,
                   subscribed, published, outbox, inflight, delivered,
                   brokerSeq, failures, sendCalls, sentIn>>

----------------------------------------------------------------------------
(* The transport and the broker, as the component uses them *)

transportFrame ==
    UNCHANGED <<issuerVars, mounted, scriptEffectPending, effectPending, script,
                ablyScriptLoaded, ably, channel, messageText, username,
                consoleErrors, cleanupRegistered, openCalls, subscribed,
                published, closeCalls, sendCalls, sentIn>>

\* The client fetched a token from authUrl and the connection opened
TransportConnected ==
    /\ conn = "connecting"
    /\ conn' = "connected"
    /\ UNCHANGED <<messages, outbox, inflight, delivered, brokerSeq, failures>>
    /\ transportFrame

\* The fetch of authUrl failed: the client gives up ("failed") or waits to
\* retry ("suspended"), as its own policy decides
TransportAuthFailed(to) ==
    /\ conn = "connecting"
    /\ conn' = to
    /\ failures' = failures \cup {"issuance"}
    /\ UNCHANGED <<messages, outbox, inflight, delivered, brokerSeq>>
    /\ transportFrame

\* The connection dropped
TransportDropped ==
    /\ conn = "connected"
    /\ conn' = "suspended"
    /\ failures' = failures \cup {"transport"}
    /\ UNCHANGED <<messages, outbox, inflight, delivered, brokerSeq>>
    /\ transportFrame

\* The client's own retry
TransportRetry ==
    /\ conn = "suspended"
    /\ conn' = "connecting"
    /\ UNCHANGED <<messages, outbox, inflight, delivered, brokerSeq, failures>>
    /\ transportFrame

\* The broker takes a published payload and fans it out, to the sender too
BrokerAccept ==
    /\ conn = "connected"
    /\ outbox # <<>>
    /\ brokerSeq < MaxEvents
    /\ brokerSeq' = brokerSeq + 1
    /\ inflight' = Append(inflight,
                          [id |-> brokerSeq + 1, name |-> Head(outbox).name,
                           data |-> Head(outbox).data,
                           timestamp |-> brokerSeq + 1,
                           connectionId |-> "self"])
    /\ outbox' = Tail(outbox)
    /\ UNCHANGED <<messages, conn, delivered, failures>>
    /\ transportFrame

\* The promise channel.publish returned rejects: nothing awaits it
PublishRejected ==
    /\ conn \in {"suspended", "failed", "closed"}
    /\ outbox # <<>>
    /\ outbox' = Tail(outbox)
    /\ failures' = failures \cup {"publish"}
    /\ UNCHANGED <<messages, conn, inflight, delivered, brokerSeq>>
    /\ transportFrame

\* Another session publishes to the channel. The bound on the broker's
\* events keeps room for what this session has published or may publish.
PeerPublish(name, data) ==
    /\ conn = "connected"
    /\ brokerSeq + Len(outbox) + (MaxSends - sendCalls) < MaxEvents
    /\ brokerSeq' = brokerSeq + 1
    /\ inflight' = Append(inflight,
                          [id |-> brokerSeq + 1, name |-> name, data |-> data,
                           timestamp |-> brokerSeq + 1,
                           connectionId |-> "peer"])
    /\ UNCHANGED <<messages, conn, outbox, delivered, failures>>
    /\ transportFrame

\* part_000 87-90: the transport calls the subscribed handler with the next
\* event
Deliver ==
    /\ conn = "connected" /\ subscribed
    /\ inflight # <<>>
    /\ delivered' = Append(delivered, Head(inflight))
    /\ messages' = SubscribeHandler(messages, Head(inflight))
    /\ inflight' = Tail(inflight)
    /\ UNCHANGED <<conn, outbox, brokerSeq, failures>>
    /\ transportFrame

\* After a reconnect the transport replays an event it had already handed
\* over: the subscribed handler is called with it again. The bound on the
\* events bounds the deliveries too.
Redeliver ==
    /\ conn = "connected" /\ subscribed
    /\ "transport" \in failures
    /\ Len(delivered) <= MaxEvents
    /\ \E i \in 1..Len(delivered) :
          /\ delivered' = Append(delivered, delivered[i])
          /\ messages' = SubscribeHandler(messages, delivered[i])
    /\ UNCHANGED <<conn, outbox, inflight, brokerSeq, failures>>
    /\ transportFrame

----------------------------------------------------------------------------
(* Specifications *)

\* The component before its first effects ran, useState initial values
SessionInit ==
    /\ username \in {Username(n) : n \in RandomDraws}
    /\ mounted = TRUE
    /\ scriptEffectPending = TRUE
    /\ effectPending = TRUE
    /\ script = "none"
    /\ ablyScriptLoaded = FALSE
    /\ ably = "null"
    /\ channel = "null"
    /\ messages = <<>>
    /\ messageText = <<>>
    /\ consoleErrors = {}
    /\ cleanupRegistered = FALSE
    /\ openCalls = <<>>
    /\ conn = "none"
    /\ subscribed = FALSE
    /\ published = <<>>
    /\ outbox = <<>>
    /\ closeCalls = 0
    /\ inflight = <<>>
    /\ delivered = <<>>
    /\ brokerSeq = 0
    /\ failures = {}
    /\ sendCalls = 0
    /\ sentIn = "never"
    /\ env = EnvSecret
    /\ req = [r \in Requests |-> IdleRequest]
    /\ upstreamCalls = [r \in Requests |-> 0]
    /\ serverLog = {}

\* No request has arrived; the key is set, empty or absent
IssuerInit ==
    /\ env \in EnvValues
    /\ req = [r \in Requests |-> IdleRequest]
    /\ upstreamCalls = [r \in Requests |-> 0]
    /\ serverLog = {}
    /\ username = Username(0)
    /\ mounted = TRUE
    /\ scriptEffectPending = TRUE
    /\ effectPending = TRUE
    /\ script = "none"
    /\ ablyScriptLoaded = FALSE
    /\ ably = "null"
    /\ channel = "null"
    /\ messages = <<>>
    /\ messageText = <<>>
    /\ consoleErrors = {}
    /\ cleanupRegistered = FALSE
    /\ openCalls = <<>>
    /\ conn = "none"
    /\ subscribed = FALSE
    /\ published = <<>>
    /\ outbox = <<>>
    /\ closeCalls = 0
    /\ inflight = <<>>
    /\ delivered = <<>>
    /\ brokerSeq = 0
    /\ failures = {}
    /\ sendCalls = 0
    /\ sentIn = "never"

IssuerNext ==
    \/ \E r \in Requests : GET_Start(r)
    \/ \E r \in Requests : \E o \in UpstreamOutcomes : GET_Resume(r, o)
    \/ \E e \in EnvValues : SetEnv(e)

PeerNames == {Username(n) : n \in RandomDraws}
PeerTexts == {<<"a">>}

SessionNext ==
    \/ ScriptEffect
    \/ ScriptOnload
    \/ ScriptOnerror
    \/ ConnectionEffect
    \/ \E text \in Texts : setMessageText(text)
    \/ handleSendMessage
    \/ stop
    \/ TransportConnected
    \/ \E to \in {"failed", "suspended"} : TransportAuthFailed(to)
    \/ TransportDropped
    \/ TransportRetry
    \/ BrokerAccept
    \/ PublishRejected
    \/ \E name \in PeerNames : \E data \in PeerTexts : PeerPublish(name, data)
    \/ Deliver
    \/ Redeliver

\* The token route alone
SpecIssuer == IssuerInit /\ [][IssuerNext]_vars

\* The chat component with its transport
Spec == SessionInit /\ [][SessionNext]_vars

\* The same, with a broker that keeps taking what was published and a
\* transport that keeps handing over what the broker sent
SpecLive ==
    /\ SessionInit /\ [][SessionNext]_vars
    /\ WF_vars(BrokerAccept) /\ WF_vars(Deliver)

----------------------------------------------------------------------------
(* Properties of the token route, under SpecIssuer *)

ErrorPrefix == <<"{", Quote, "error", Quote, ":", Quote>>

\* b is the JSON text of an object with the one member "error", a string
IsErrorObject(b) ==
    /\ Len(b) >= Len(ErrorPrefix) + 2
    /\ SubSeq(b, 1, Len(ErrorPrefix)) = ErrorPrefix
    /\ SubSeq(b, Len(b) - 1, Len(b)) = <<Quote, "}">>
    /\ \A i \in (Len(ErrorPrefix) + 1)..(Len(b) - 2) : b[i] \notin {Quote, ",", "}"}

GenericError ==
    Response(JSONstringify(<< <<"error", StrVal(<<"Failed to create token">>)>> >>),
             500, <<>>)

\* C1: a request that found ABLY_API_KEY unset has ended, with status 500
\* and a body {error: string}, and made no call of the upstream signer.
C1_UnsetKeyIs500WithoutUpstream ==
    \A r \in Requests :
        (req[r].pc # "idle" /\ ~req[r].key.set) =>
            /\ req[r].pc = "done"
            /\ req[r].response.status = 500
            /\ IsErrorObject(req[r].response.body)
            /\ upstreamCalls[r] = 0

C1_Witness ==
    \E r \in Requests :
        /\ req[r].pc = "done" /\ ~req[r].key.set
        /\ req[r].response.status = 500

\* C2: no response, 200 or 500, whatever the signer did, contains the raw
\* key, well formed or not.
C2_NoResponseContainsSecret ==
    \A r \in Requests : \A e \in EnvValues :
        e.value # <<>> => ~Contains(req[r].response.body, e.value)

C2_Witness ==
    \E r, q \in Requests :
        /\ req[r].pc = "done" /\ req[r].response.status = 500
        /\ req[r].key = EnvSecret
        /\ \E e \in serverLog : Contains(e, Secret)
        /\ req[q].pc = "done" /\ req[q].response.status = 200

\* C3: a request whose signer call rejected, or whose client could not be
\* built, ends with status 500 and the one fixed message, whatever the
\* error was; no request throws; no request calls the signer more than
\* once.
C3_RejectionIsGeneric500 ==
    \A r \in Requests :
        /\ ~req[r].threw
        /\ upstreamCalls[r] <= 1
        /\ (req[r].pc = "done" /\ ~Falsy(req[r].key)
                /\ req[r].response.status # 200)
              => req[r].response = GenericError

C3_Witness ==
    \E r, q \in Requests :
        /\ r # q
        /\ req[r].pc = "done" /\ req[q].pc = "done"
        /\ upstreamCalls[r] = 1 /\ upstreamCalls[q] = 1
        /\ req[r].response.status = 500 /\ req[q].response.status = 500
        /\ {<<"timeout">>, <<"invalid", "key", " ">> \o Secret} \subseteq serverLog

----------------------------------------------------------------------------
(* Properties of the component, under Spec *)

IsPrefix(s, t) == Len(s) <= Len(t) /\ SubSeq(t, 1, Len(s)) = s

\* C4: a send in a state other than Connected never calls channel.publish.
\* As claimed; the component publishes whenever it holds a channel.
C4_Claim ==
    (sendCalls = 1 /\ sentIn # "Connected") => published = <<>>

\* C5: the list of messages is the delivered events in arrival order, and
\* every step leaves the earlier list a prefix of the later one.
C5_LogIsDeliveredInOrder ==
    /\ [](messages = delivered)
    /\ [][IsPrefix(messages, messages')]_vars

C5_Witness ==
    /\ Len(messages) = 2
    /\ messages[1].id = 1 /\ messages[2].id = 2
    /\ messages[1].name # messages[2].name

\* C6: a publish leaves the list of messages unchanged, and the list
\* changes only in a step of the subscribe handler.
C6_PublishDoesNotAppend ==
    [][/\ (published' # published => messages' = messages)
       /\ (messages' # messages => delivered' # delivered)]_vars

C6_Witness ==
    /\ Len(published) = 1 /\ messages = <<>> /\ delivered = <<>>
    /\ sentIn = "Connected"

\* C7: a send of a non-empty text in state Connected calls channel.publish
\* exactly once, with the local username and exactly that text.
C7_ConnectedSendPublishesOnce ==
    [][(sendCalls' # sendCalls /\ ConnectionState = "Connected"
            /\ Trim(messageText) # <<>>)
        => published' = Append(published,
                               [name |-> username, data |-> messageText])]_vars

C7_Witness ==
    /\ sendCalls = 1 /\ sentIn = "Connected"
    /\ published = <<[name |-> username, data |-> <<" ", "a", " ">>]>>

\* C8: once the issuance failed, the session is Failed and no transport was
\* opened. As claimed; the component opens the transport first and leaves
\* the issuance to it.
C8_Claim ==
    (mounted /\ "issuance" \in failures /\ conn \notin {"connecting", "connected"})
        => (ConnectionState = "Failed" /\ openCalls = <<>>)

\* The failures the component reported
ReportedFailures ==
    IF ScriptErrorText \in consoleErrors THEN {"script"} ELSE {}

\* The failures that are not over
CurrentFailures ==
    {f \in failures :
        \/ f \in {"script", "publish"}
        \/ f \in {"issuance", "transport"} /\ conn \in {"suspended", "failed"}}

\* C10: every failure is reported or shows in the connection state the
\* component presents. As claimed; a failed issuance, a dropped transport
\* and a rejected publish change nothing the component shows.
C10_Claim ==
    mounted => \A f \in CurrentFailures :
                  \/ f \in ReportedFailures
                  \/ f # "publish" /\ InputDisabled

\* C11: a send of a text that is empty after trimming calls no
\* channel.publish and changes nothing of the session, whatever the
\* connection state.
C11_EmptySendIsNoOp ==
    [][(sendCalls' # sendCalls /\ Trim(messageText) = <<>>)
        => UNCHANGED <<published, outbox, messages, messageText, username,
                       ably, channel, ablyScriptLoaded, mounted, conn,
                       subscribed, openCalls, closeCalls, inflight, delivered,
                       consoleErrors>>]_vars

C11_Witness ==
    /\ sendCalls = 1 /\ sentIn = "Connected"
    /\ messageText = <<" ">> /\ published = <<>>

----------------------------------------------------------------------------
(* Reading a JSON text back *)

MemberKey(key) == <<Quote, key, Quote, ":">>

\* the JSON text b has a member named key
HasMember(b, key) == Contains(b, MemberKey(key))

RECURSIVE UntilQuote(_)
UntilQuote(t) ==
    IF t = <<>> \/ Head(t) = Quote THEN <<>>
    ELSE <<Head(t)>> \o UntilQuote(Tail(t))

\* the string value of member key of the JSON text b
StringMember(b, key) ==
    LET i == CHOOSE j \in 1..Len(b) :
                 /\ j + 4 <= Len(b)
                 /\ SubSeq(b, j, j + 4) = MemberKey(key) \o <<Quote>>
    IN UntilQuote(SubSeq(b, i + 5, Len(b)))

HasStringMember(b, key) == Contains(b, MemberKey(key) \o <<Quote>>)

DigitStrings == {ToString(n) : n \in 0..(RandomRange - 1)}

\* 'amana-chat-user-' followed by an integer of 0..9999
IsIdentity(v) ==
    Len(v) = 2 /\ v[1] = "amana-chat-user-" /\ v[2] \in DigitStrings

\* the body states when the credential expires: an expiry, or a ttl
CarriesExpiry(b) == HasMember(b, "expires") \/ HasMember(b, "ttl")

Signed(r) ==
    req[r].pc = "done" /\ ~Falsy(req[r].key) /\ req[r].outcome = "resolve"

\* C12: with the key set and the signer resolving, the 200 body carries the
\* identity and an expiry later than its issue time. As claimed; the
\* handler asks for a token request with a clientId and no ttl and returns
\* it as it is, with the time of signing and no expiry.
C12_Claim ==
    \A r \in Requests :
        Signed(r) =>
            /\ req[r].response.status = 200
            /\ HasStringMember(req[r].response.body, "clientId")
            /\ IsIdentity(StringMember(req[r].response.body, "clientId"))
            /\ CarriesExpiry(req[r].response.body)

\* The response the handler owes request r, from what r itself read and got
OwnResponse(r) ==
    IF Falsy(req[r].key)
    THEN Response(JSONstringify(
             << <<"error", StrVal(<<"ABLY_API_KEY not set">>)>> >>), 500, <<>>)
    ELSE IF req[r].outcome = "resolve"
    THEN Response(JSONstringify(
             SignedTokenRequest(req[r].key.value, req[r].clientId)),
             200, <<"application/json">>)
    ELSE GenericError

\* C13: whatever the interleaving of the requests, the response of each is
\* a function of the key it read and of its own signer result, and a step
\* of one request changes nothing of another.
C13_RequestsAreIndependent ==
    /\ [](\A r \in Requests :
            /\ req[r].pc = "done" => req[r].response = OwnResponse(r)
            /\ Falsy(req[r].key) => upstreamCalls[r] = 0)
    /\ [][\A r \in Requests :
            req'[r] # req[r] =>
                \A q \in Requests \ {r} :
                    req'[q] = req[q] /\ upstreamCalls'[q] = upstreamCalls[q]]_vars

C13_Witness ==
    \E r, q \in Requests :
        /\ req[r].pc = "done" /\ req[r].response.status = 200
        /\ req[q].pc = "done" /\ req[q].response.status = 500
        /\ ~req[q].key.set /\ upstreamCalls[q] = 0

\* C14: an event the transport delivers twice is in the list twice, each
\* time at the position of its arrival: the handler drops no duplicate.
C14_DuplicatesAreKept ==
    \A i, j \in 1..Len(delivered) :
        (i < j /\ delivered[i].id = delivered[j].id) =>
            /\ Len(messages) >= j
            /\ messages[i] = delivered[i]
            /\ messages[j] = delivered[j]

C14_Witness ==
    \E i, j \in 1..Len(messages) :
        /\ i < j /\ messages[i].id = messages[j].id
        /\ \E k \in 1..Len(messages) : i < k /\ k < j

\* The events of this session's own publishes that are in the list
OwnEchoes ==
    {messages[i].id : i \in {k \in 1..Len(messages) :
                                 messages[k].connectionId = "self"}}

\* C15: what the session published while Connected is eventually in its
\* own list, unless the session is stopped, or the connection is lost and
\* with it, possibly, the publish.
C15_OwnMessageComesBack ==
    (sentIn = "Connected" /\ published # <<>>)
        ~> \/ Cardinality(OwnEchoes) = Len(published)
           \/ ~mounted
           \/ conn # "connected"
           \/ "publish" \in failures

C15_Witness ==
    /\ mounted /\ conn = "connected" /\ failures = {}
    /\ sentIn = "Connected" /\ Len(published) = 1
    /\ \E i \in 1..Len(messages) :
          /\ messages[i].connectionId = "self"
          /\ messages[i].name = published[1].name
          /\ messages[i].data = published[1].data

\* C16: as long as the connection is not Connected, the input and the
\* send button are disabled. As claimed; the controls are enabled as soon
\* as the client object exists.
C16_Claim ==
    (mounted /\ ConnectionState # "Connected")
        => (InputDisabled /\ SendDisabled)

\* C17: a client exists only after the script has loaded, at most one
\* client is unclosed at any time, and none is once the component is
\* unmounted.
C17_OneClientClosedAtUnmount ==
    /\ openCalls # <<>> => (script = "loaded" /\ ablyScriptLoaded)
    /\ UnclosedClients <= 1
    /\ ~mounted => UnclosedClients = 0

C17_Witness ==
    /\ ~mounted /\ Len(openCalls) = 1 /\ closeCalls = 1 /\ conn = "closed"

\* C18: a message shown as the local user's was published by this session.
\* As claimed; the test is on the name alone, and another session can
\* have drawn the same one.
C18_Claim ==
    \A i \in 1..Len(messages) :
        IsOwn(messages[i]) => messages[i].connectionId = "self"

====
